---- MODULE Spec2Model ----
(***************************************************************************)
(* A model of hiera.client.HieraClient (src/hiera/client.py): a client    *)
(* that runs the hiera command line tool in a child process and, for      *)
(* list/dict lookups, a ruby child process that re-serialises the result  *)
(* as JSON.                                                               *)
(*                                                                         *)
(* Names of the error kinds: the prose specification calls                *)
(*   HieraError raised by _validate      ConfigurationError               *)
(*   HieraError raised by _hiera         LookupError                      *)
(*   HieraNotFoundError                  BinaryNotFoundError              *)
(* Python's own built-in LookupError (the base of KeyError) is a          *)
(* different class and keeps its name below.                              *)
(***************************************************************************)
EXTENDS Integers, Sequences, FiniteSets, TLC

(***************************************************************************)
(* Bounds of the model.                                                    *)
(***************************************************************************)
\* longest text a child process prints
MaxLen == 3

(***************************************************************************)
(* Text.  A text is a sequence of characters (one-character strings).     *)
(***************************************************************************)
Char == {" ", "\n", "a"}

\* the characters str.strip() removes (string.whitespace)
Whitespace == {" ", "\t", "\n", "\r"}

Texts == UNION {[1..n -> Char] : n \in 0..MaxLen}

RECURSIVE lstrip(_)
lstrip(s) ==
    IF s # <<>> /\ Head(s) \in Whitespace THEN lstrip(Tail(s)) ELSE s

RECURSIVE rstrip(_)
rstrip(s) ==
    IF s # <<>> /\ s[Len(s)] \in Whitespace
    THEN rstrip(SubSeq(s, 1, Len(s) - 1))
    ELSE s

\* a plausible slip: only the leading whitespace is removed
strip_leading_only(s) ==
    lstrip(s)

\* str.strip()
strip(s) ==
    rstrip(lstrip(s))

\* string.replace('\n', '')
remove_newlines(s) ==
    SelectSeq(s, LAMBDA c : c # "\n")

(***************************************************************************)
(* Python values.  Every value carries its type, so that '' and [] and {} *)
(* and None are four different values, as they are in Python.             *)
(***************************************************************************)
PyNone == [t |-> "NoneType", v |-> <<>>]

PyStr(s) == [t |-> "str", v |-> s]

PyList(l) == [t |-> "list", v |-> l]

\* a dict is kept as the sequence of its (key, value) items
PyDict(items) == [t |-> "dict", v |-> items]

\* isinstance(x, basestring)
is_basestring(x) ==
    x.t = "str"

\* the truth value Python gives `not x`
not_(x) ==
    x.t = "NoneType" \/ Len(x.v) = 0

(***************************************************************************)
(* Exceptions.  An exception is known by its class; `except C` catches    *)
(* the instances of C and of its subclasses.                              *)
(***************************************************************************)
\* hiera.exc: the two error kinds of the package, told apart by callers
hiera_exc_base(cls) ==
    CASE cls = "HieraError" -> "Exception"
      [] cls = "HieraNotFoundError" -> "Exception"

\* the base class of each class that can be raised here (Python 2)
base(cls) ==
    CASE cls \in {"HieraError", "HieraNotFoundError"} -> hiera_exc_base(cls)
      [] cls = "OSError" -> "EnvironmentError"
      [] cls = "EnvironmentError" -> "StandardError"
      [] cls = "CalledProcessError" -> "Exception"
      [] cls = "ValueError" -> "StandardError"
      [] cls = "KeyError" -> "LookupError"
      [] cls = "LookupError" -> "StandardError"
      [] cls = "UnboundLocalError" -> "NameError"
      [] cls = "NameError" -> "StandardError"
      [] cls = "StandardError" -> "Exception"
      [] cls = "Exception" -> "BaseException"
      [] OTHER -> "object"

RECURSIVE issubclass(_, _)
issubclass(cls, of) ==
    IF cls = of THEN TRUE
    ELSE IF cls \in {"object", "BaseException"} THEN FALSE
    ELSE issubclass(base(cls), of)

\* what a call gives back: a value returned, or an exception raised
Return(x) == [kind |-> "return", value |-> x, exc |-> "-"]

Raise(cls) == [kind |-> "raise", value |-> PyNone, exc |-> cls]

NoOutcome == [kind |-> "pending", value |-> PyNone, exc |-> "-"]

(***************************************************************************)
(* The world outside the program.                                         *)
(***************************************************************************)
\* the file system: what each path names
FileSystem ==
    [p \in {"/etc/hiera.yaml", "/etc", "/missing"} |->
        CASE p = "/etc/hiera.yaml" -> "file"
          [] p = "/etc" -> "directory"
          [] OTHER -> "absent"]

Paths == DOMAIN FileSystem

\* os.path.exists: a plausible slip for isfile
os_path_exists(p) ==
    FileSystem[p] # "absent"

\* os.path.isfile: the path names an existing regular file
os_path_isfile(p) ==
    FileSystem[p] = "file"

Binaries == {"hiera", "/opt/bin/hiera"}

Keys == {"k", "other.key"}

ScopeNames == {"env", "role"}

ScopeValues == {"dev"}

\* the **kwargs a client can be built with
Environments == UNION {[S -> ScopeValues] : S \in SUBSET ScopeNames}

\* lookup_type: None, list, dict, or something the caller should not pass
LookupTypes == {"None", "list", "dict", "str"}

ReturnCodes == {0, 1}

\* the orders in which iteritems() can yield the items of a dict with keys S
Orders(S) ==
    {o \in [1..Cardinality(S) -> S] : \A x \in S : \E i \in DOMAIN o : o[i] = x}

(***************************************************************************)
(* HieraClient._command                                                    *)
(***************************************************************************)
\* list.insert(i, x), i counted from 0
list_insert(l, i, x) ==
    SubSeq(l, 1, i) \o <<x>> \o SubSeq(l, i + 1, Len(l))

\* '='.join((name, value))
join_eq(name, value) ==
    name \o "=" \o value

\* { list: 'array', dict: 'hash' }
lookup_names == [list |-> "array", dict |-> "hash"]

\* a plausible slip: the flag is put after --config
command_flag_after_config(self, key_name, lookup_type, order) ==
    LET cmd == <<self.hiera_binary, "--config", self.config_filename, key_name>>
        withflag == IF lookup_type # "None"
                    THEN list_insert(cmd, 2, "--" \o lookup_names[lookup_type])
                    ELSE cmd
    IN  withflag \o [i \in DOMAIN order |->
                        join_eq(order[i], self.environment[order[i]])]

\* _command for a lookup_type that is None or a key of lookup_names; `order`
\* is the order in which self.environment.iteritems() yields the items
_command(self, key_name, lookup_type, order) ==
    LET lookup_cmd == IF lookup_type # "None"
                      THEN "--" \o lookup_names[lookup_type]
                      ELSE "None"
        cmd == <<self.hiera_binary, "--config", self.config_filename, key_name>>
        withflag == IF lookup_cmd # "None" THEN list_insert(cmd, 1, lookup_cmd)
                    ELSE cmd
    IN  withflag \o [i \in DOMAIN order |->
                        join_eq(order[i], self.environment[order[i]])]

(***************************************************************************)
(* HieraClient._to_dict_or_list                                            *)
(***************************************************************************)
\* the program text handed to ruby -e, as the pieces of the format string
ruby_program(string) ==
    <<"require \"json\"; puts JSON.generate(">> \o string \o <<")">>

to_json_cmd(string) ==
    <<"ruby", "-e", ruby_program(remove_newlines(string))>>

\* what the ruby process can print (stdout and stderr together)
RubyOutputs ==
    {"[]", "{}", "[\"a\"]", "{\"k\":\"v\"}", "null", "\"\"", "\" a\"",
     "-e:1: syntax error"}

\* json.loads on those texts
json_loads(text) ==
    CASE text = "[]" -> Return(PyList(<<>>))
      [] text = "{}" -> Return(PyDict(<<>>))
      [] text = "[\"a\"]" -> Return(PyList(<<"a">>))
      [] text = "{\"k\":\"v\"}" -> Return(PyDict(<< <<"k", "v">> >>))
      [] text = "null" -> Return(PyNone)
      [] text = "\"\"" -> Return(PyStr(<<>>))
      [] text = "\" a\"" -> Return(PyStr(<<" ", "a">>))
      [] OTHER -> Raise("ValueError")

(***************************************************************************)
(* HieraClient._validate, ._hiera and .get, as the pieces the steps of a  *)
(* call are made of.                                                       *)
(***************************************************************************)
\* a plausible slip: any existing path is accepted
validate_exists(self) ==
    IF ~os_path_exists(self.config_filename)
    THEN Raise("HieraError")
    ELSE Return(PyNone)

_validate(self) ==
    IF ~os_path_isfile(self.config_filename)
    THEN Raise("HieraError")
    ELSE Return(PyNone)

\* a plausible slip: the conversion is skipped for an output that is empty
\* once trimmed
needs_conversion_nonempty(lookup_type, output) ==
    lookup_type # "None" /\ strip(output) # <<>>

\* a plausible slip: the conversion is run whatever the lookup type
needs_conversion_always(lookup_type, output) ==
    TRUE

\* `if lookup_type is not None:` the output goes through _to_dict_or_list
needs_conversion(lookup_type, output) ==
    lookup_type # "None"

\* a plausible slip: a launch failure is reported as a plain HieraError
hiera_except_generic(exc) ==
    IF issubclass(exc, "OSError") THEN "HieraError"
    ELSE IF issubclass(exc, "CalledProcessError") THEN "HieraError"
    ELSE exc

\* the except clauses of _hiera: the class of the exception that leaves
\* _hiera when `exc` is raised inside its try block
hiera_except(exc) ==
    IF issubclass(exc, "OSError") THEN "HieraNotFoundError"
    ELSE IF issubclass(exc, "CalledProcessError") THEN "HieraError"
    ELSE exc

\* a plausible slip: only text is normalised, a decoded value is passed on
hiera_else_text_only(output) ==
    IF is_basestring(output)
    THEN IF strip(output.v) = <<>> THEN PyNone ELSE PyStr(strip(output.v))
    ELSE output

\* the else clause of _hiera: what _hiera returns for `output`
hiera_else(output) ==
    LET stripped == IF is_basestring(output) THEN PyStr(strip(output.v))
                    ELSE output
    IN  IF not_(stripped) THEN PyNone ELSE stripped

\* a plausible slip: every failed lookup gives None
get_default_none(lookup_type) ==
    Return(PyNone)

\* a plausible slip: the defaults of list and dict are exchanged
get_default_swapped(lookup_type) ==
    CASE lookup_type = "None" -> Return(PyStr(<<>>))
      [] lookup_type = "dict" -> Return(PyList(<<>>))
      [] lookup_type = "list" -> Return(PyDict(<<>>))
      [] OTHER -> Raise("UnboundLocalError")

\* the body of get's except clause; with no branch taken `value` is unbound
get_default(lookup_type) ==
    CASE lookup_type = "None" -> Return(PyStr(<<>>))
      [] lookup_type = "dict" -> Return(PyDict(<<>>))
      [] lookup_type = "list" -> Return(PyList(<<>>))
      [] OTHER -> Raise("UnboundLocalError")

\* get, given what self._hiera(key_name, lookup_type) gave
get(lookup_type, outcome) ==
    IF outcome.kind = "raise" /\ issubclass(outcome.exc, "HieraError")
    THEN get_default(lookup_type)
    ELSE outcome

(***************************************************************************)
(* State.                                                                  *)
(***************************************************************************)
VARIABLES
    client,     \* the HieraClient object: its three attributes
    ctor,       \* what HieraClient(...) gave: nothing yet, the object, an error
    pc,         \* where the current get call is: idle, hiera, ruby, done
    call,       \* the arguments of the current get call
    sub,        \* the subprocess.check_output calls of the current get call
    result,     \* what the current get call gave
    prev        \* what the caller keeps of the get call before this one

vars == <<client, ctor, pc, call, sub, result, prev>>

NoClient == [config_filename |-> "-", hiera_binary |-> "-", environment |-> <<>>]

NoCall == [key_name |-> "-", lookup_type |-> "-"]

NoPrev == [lookup_type |-> "-", how |-> "-", result |-> NoOutcome]

\* one subprocess.check_output call: the child could not be launched
\* (oserror), is running, or has exited with a return code and an output
Launched(argv) ==
    [argv |-> argv, state |-> "running", returncode |-> "None", output |-> "None"]

NotLaunched(argv) ==
    [argv |-> argv, state |-> "oserror", returncode |-> "None", output |-> "None"]

Exited(p, returncode, output) ==
    [p EXCEPT !.state = "exited", !.returncode = returncode, !.output = output]

\* the child processes that were started
Started == {i \in DOMAIN sub : sub[i].state # "oserror"}

ExitedWith(i, codes) ==
    /\ i \in DOMAIN sub
    /\ sub[i].state = "exited"
    /\ sub[i].returncode \in codes

\* the lookup binary ran and exited with a non-zero status
LookupFailed == ExitedWith(1, ReturnCodes \ {0})

\* the lookup succeeded with an empty result: the text of an untyped lookup
\* is empty once trimmed, the value decoded for a typed lookup is empty
LookupEmpty ==
    /\ ExitedWith(1, {0})
    /\ IF call.lookup_type = "None"
       THEN strip(sub[1].output) = <<>>
       ELSE /\ ExitedWith(2, {0})
            /\ json_loads(sub[2].output).kind = "return"
            /\ LET x == json_loads(sub[2].output).value
               IN  IF is_basestring(x) THEN strip(x.v) = <<>> ELSE not_(x)

\* what the caller remembers of a finished call
Remember ==
    IF LookupFailed \/ LookupEmpty
    THEN [lookup_type |-> call.lookup_type,
          how |-> IF LookupFailed THEN "failed" ELSE "empty",
          result |-> result]
    ELSE NoPrev

Init ==
    /\ client = NoClient
    /\ ctor = NoOutcome
    /\ pc = "idle"
    /\ call = NoCall
    /\ sub = <<>>
    /\ result = NoOutcome
    /\ prev = NoPrev

(***************************************************************************)
(* Steps.                                                                  *)
(***************************************************************************)
\* HieraClient(config_filename, hiera_binary, **kwargs)
HieraClient(config_filename, hiera_binary, kwargs) ==
    /\ pc = "idle"
    /\ client' = [config_filename |-> config_filename,
                  hiera_binary |-> hiera_binary,
                  environment |-> kwargs]
    /\ ctor' = _validate(client')
    /\ pc' = "idle"
    /\ call' = NoCall
    /\ sub' = <<>>
    /\ result' = NoOutcome
    /\ prev' = NoPrev

\* client.get(key_name, lookup_type), up to the launch of the lookup binary
GetCall(key_name, lookup_type) ==
    /\ ctor.kind = "return"
    /\ pc = "idle"
    /\ call' = [key_name |-> key_name, lookup_type |-> lookup_type]
    /\ IF lookup_type \notin {"None"} \cup DOMAIN lookup_names
       THEN \* the dict lookup in _command raises KeyError
            /\ sub' = <<>>
            /\ result' = get(lookup_type, Raise("KeyError"))
            /\ pc' = "done"
       ELSE \E order \in Orders(DOMAIN client.environment), launched \in BOOLEAN :
              LET hiera_command == _command(client, key_name, lookup_type, order)
              IN  IF launched
                  THEN /\ sub' = <<Launched(hiera_command)>>
                       /\ result' = NoOutcome
                       /\ pc' = "hiera"
                  ELSE /\ sub' = <<NotLaunched(hiera_command)>>
                       /\ result' = get(lookup_type, Raise(hiera_except("OSError")))
                       /\ pc' = "done"
    /\ UNCHANGED <<client, ctor, prev>>

\* the lookup binary exits; get goes on to the launch of ruby, or ends
HieraExit(returncode, output) ==
    /\ pc = "hiera"
    /\ LET lookup_type == call.lookup_type
           exited == <<Exited(sub[1], returncode, output)>>
       IN  IF returncode # 0
           THEN /\ sub' = exited
                /\ result' = get(lookup_type,
                                 Raise(hiera_except("CalledProcessError")))
                /\ pc' = "done"
           ELSE IF needs_conversion(lookup_type, output)
           THEN \E launched \in BOOLEAN :
                  IF launched
                  THEN /\ sub' = exited \o <<Launched(to_json_cmd(output))>>
                       /\ result' = NoOutcome
                       /\ pc' = "ruby"
                  ELSE /\ sub' = exited \o <<NotLaunched(to_json_cmd(output))>>
                       /\ result' = get(lookup_type, Raise(hiera_except("OSError")))
                       /\ pc' = "done"
           ELSE /\ sub' = exited
                /\ result' = get(lookup_type, Return(hiera_else(PyStr(output))))
                /\ pc' = "done"
    /\ UNCHANGED <<client, ctor, call, prev>>

\* the ruby process exits; get ends
RubyExit(returncode, json_output) ==
    /\ pc = "ruby"
    /\ sub' = [sub EXCEPT ![Len(sub)] = Exited(@, returncode, json_output)]
    /\ LET lookup_type == call.lookup_type
           decoded == json_loads(json_output)
       IN  result' =
             IF returncode # 0
             THEN get(lookup_type, Raise(hiera_except("CalledProcessError")))
             ELSE IF decoded.kind = "raise"
             THEN get(lookup_type, Raise(hiera_except(decoded.exc)))
             ELSE get(lookup_type, Return(hiera_else(decoded.value)))
    /\ pc' = "done"
    /\ UNCHANGED <<client, ctor, call, prev>>

\* control is back in the caller, which keeps the value of a failed or empty
\* lookup to compare it with the next one
GetReturn ==
    /\ pc = "done"
    /\ prev' = IF Remember # NoPrev THEN Remember ELSE prev
    /\ pc' = "idle"
    /\ call' = NoCall
    /\ sub' = <<>>
    /\ result' = NoOutcome
    /\ UNCHANGED <<client, ctor>>

Next ==
    \/ \E config_filename \in Paths, hiera_binary \in Binaries,
          kwargs \in Environments :
            HieraClient(config_filename, hiera_binary, kwargs)
    \/ \E key_name \in Keys, lookup_type \in LookupTypes :
            GetCall(key_name, lookup_type)
    \/ \E returncode \in ReturnCodes, output \in Texts :
            HieraExit(returncode, output)
    \/ \E returncode \in ReturnCodes, json_output \in RubyOutputs :
            RubyExit(returncode, json_output)
    \/ GetReturn

Spec == Init /\ [][Next]_vars

(***************************************************************************)
(* Properties.                                                             *)
(***************************************************************************)
Typed == call.lookup_type \in {"list", "dict"}

Untyped == call.lookup_type = "None"

\* the launch of the lookup binary failed
LookupNotLaunched == 1 \in DOMAIN sub /\ sub[1].state = "oserror"

Blank(text) == \A i \in DOMAIN text : text[i] \in Whitespace

\* the conversion step was reached and failed: ruby could not be launched,
\* exited with a non-zero status, or printed what json.loads rejects
ConversionFailed ==
    /\ 2 \in DOMAIN sub
    /\ \/ sub[2].state = "oserror"
       \/ ExitedWith(2, ReturnCodes \ {0})
       \/ ExitedWith(2, {0}) /\ json_loads(sub[2].output).kind = "raise"

\* both processes exited with status 0 and the output of ruby was decoded
ConversionDone ==
    /\ ExitedWith(1, {0})
    /\ ExitedWith(2, {0})
    /\ json_loads(sub[2].output).kind = "return"

\* C1: whenever the lookup binary cannot be launched, get raises
\* HieraNotFoundError (BinaryNotFoundError) to its caller, whatever the
\* lookup type (none, list or dict) and the key; it returns no default.
C1_BinaryNotFoundPropagates ==
    LookupNotLaunched =>
        /\ pc = "done"
        /\ result = Raise("HieraNotFoundError")

C1_Witness ==
    /\ LookupNotLaunched
    /\ call.lookup_type = "list"
    /\ result.kind = "raise"

C3_UntypedResultIsTrimmed ==
    (Untyped /\ ExitedWith(1, {0})) =>
        LET out == sub[1].output
            solid == {i \in DOMAIN out : out[i] \notin Whitespace}
            first == CHOOSE i \in solid : \A j \in solid : i <= j
            last == CHOOSE i \in solid : \A j \in solid : j <= i
        IN  /\ Len(sub) = 1
            /\ pc = "done"
            /\ result = IF solid = {} THEN Return(PyNone)
                        ELSE Return(PyStr(SubSeq(out, first, last)))

C3_Witness ==
    /\ Untyped
    /\ ExitedWith(1, {0})
    /\ sub[1].output = <<" ", "a", "\n">>
    /\ result = Return(PyStr(<<"a">>))

\* C4 as stated: for a typed get whose lookup binary exited 0 with an output
\* that is empty once trimmed, no second process is started and get returns
\* None.
C4_Original ==
    (Typed /\ ExitedWith(1, {0}) /\ Blank(sub[1].output)) =>
        /\ Started = {1}
        /\ pc = "done"
        /\ result = Return(PyNone)

\* C4 amended: for a typed get whose lookup binary exited 0 with an output
\* that is empty once trimmed, the conversion step is not skipped: the launch
\* of ruby on the output without its newlines is attempted as for any other
\* output, and get returns None exactly when ruby exits 0 and what it prints
\* decodes to an empty value.
C4_EmptyOutputStillConverted ==
    (Typed /\ ExitedWith(1, {0}) /\ Blank(sub[1].output)) =>
        /\ Len(sub) = 2
        /\ sub[2].argv =
             <<"ruby", "-e",
               <<"require \"json\"; puts JSON.generate(">>
                 \o SelectSeq(sub[1].output, LAMBDA c : c # "\n")
                 \o <<")">> >>
        /\ pc = "done" =>
             (result = Return(PyNone) <=> LookupEmpty)

C4_Witness ==
    /\ call.lookup_type = "list"
    /\ ExitedWith(1, {0})
    /\ sub[1].output = <<" ", "\n">>
    /\ ExitedWith(2, {0})
    /\ result = Return(PyNone)

\* C5 as stated: when the conversion step of a typed get fails, get raises a
\* low-level process or decode error: it returns no default, and raises
\* neither HieraNotFoundError nor HieraError.
C5_ConversionFailurePropagatesRaw ==
    ConversionFailed =>
        /\ result.kind = "raise"
        /\ result.exc \in {"OSError", "CalledProcessError", "ValueError"}

\* C6 as stated: the constructor raises exactly for the configuration paths
\* that do not exist.
C6_Original ==
    ctor.kind # "pending" =>
        (ctor.kind = "raise" <=> FileSystem[client.config_filename] = "absent")

\* C6 amended: the constructor raises HieraError (ConfigurationError) for
\* every configuration path that is not an existing regular file, among them
\* an existing directory, and never raises for a path that is one, whatever
\* the scope variables and the binary path.
C6_RaisesUnlessRegularFile ==
    ctor.kind # "pending" =>
        ctor = IF FileSystem[client.config_filename] = "file"
               THEN Return(PyNone)
               ELSE Raise("HieraError")

C6_Witness ==
    /\ ctor = Raise("HieraError")
    /\ FileSystem[client.config_filename] = "directory"
    /\ client.hiera_binary = "/opt/bin/hiera"
    /\ DOMAIN client.environment = ScopeNames

\* C7 as stated: for a typed lookup whose two processes succeed, a decoded
\* list or dict is returned as it is, the empty ones included.
C7_Original ==
    (Typed /\ ConversionDone
       /\ json_loads(sub[2].output).value.t \in {"list", "dict"}) =>
        result = Return(json_loads(sub[2].output).value)

\* C7 amended: for a typed lookup whose two processes succeed, a decoded list
\* or dict is returned as it is only when it is not empty; an empty list or
\* dict is normalised to None, as the empty text of an untyped lookup is.
C7_EmptyDecodedValueIsNone ==
    (Typed /\ ConversionDone
       /\ json_loads(sub[2].output).value.t \in {"list", "dict"}) =>
        LET x == json_loads(sub[2].output).value
        IN  result = IF Len(x.v) = 0 THEN Return(PyNone) ELSE Return(x)

C7_Witness ==
    /\ call.lookup_type = "list"
    /\ ConversionDone
    /\ json_loads(sub[2].output).value = PyList(<<>>)
    /\ result = Return(PyNone)

\* C8: the argument vector of the lookup is the binary path, "--config", the
\* configuration path and the key, then one "name=value" per scope variable;
\* with a lookup type, "--array" (list) or "--hash" (dict) stands at index 1,
\* between the binary path and "--config", and nothing else changes.
C8_ArgumentVector ==
    1 \in DOMAIN sub =>
        LET argv == sub[1].argv
            flag == IF Untyped THEN 0 ELSE 1
            scope == client.environment
        IN  /\ Len(argv) = 4 + flag + Cardinality(DOMAIN scope)
            /\ argv[1] = client.hiera_binary
            /\ call.lookup_type = "list" => argv[2] = "--array"
            /\ call.lookup_type = "dict" => argv[2] = "--hash"
            /\ argv[2 + flag] = "--config"
            /\ argv[3 + flag] = client.config_filename
            /\ argv[4 + flag] = call.key_name
            /\ {argv[i] : i \in (5 + flag)..Len(argv)}
                 = {n \o "=" \o scope[n] : n \in DOMAIN scope}

C8_Witness ==
    /\ 1 \in DOMAIN sub
    /\ DOMAIN client.environment = {"env"}
    /\ sub[1].argv
         = <<"hiera", "--array", "--config", "/etc/hiera.yaml", "k", "env=dev">>

\* the same lookup type in the remembered call and in this one, one a failed
\* lookup and the other a successful empty one
FailedAndEmptyToCompare ==
    /\ pc = "done"
    /\ prev.lookup_type = call.lookup_type
    /\ \/ prev.how = "failed" /\ LookupEmpty
       \/ prev.how = "empty" /\ LookupFailed

\* C9 as stated: for each lookup type, the value get returns for a failed
\* lookup equals the value it returns for a successful empty result.
C9_Original ==
    FailedAndEmptyToCompare => result = prev.result

\* C9 amended: for each lookup type, the value get returns for a failed lookup
\* and the value it returns for a successful empty result are both empty, but
\* they are not equal: the first is '' or [] or {}, the second is None, so a
\* caller that tests for None tells them apart.
C9_FailedAndEmptyDiffer ==
    FailedAndEmptyToCompare =>
        LET failed == IF prev.how = "failed" THEN prev.result ELSE result
            empty == IF prev.how = "empty" THEN prev.result ELSE result
        IN  /\ empty = Return(PyNone)
            /\ failed.kind = "return"
            /\ failed.value.t # "NoneType"
            /\ Len(failed.value.v) = 0
            /\ failed # empty

C9_Witness ==
    /\ FailedAndEmptyToCompare
    /\ prev.how = "failed"
    /\ Untyped

\* C10: a get call starts at most two child processes, one after the other:
\* the lookup binary first, and ruby only once the lookup binary has exited
\* with status 0 and only with a lookup type; nothing is started after a
\* failed launch or a non-zero exit of the lookup binary, and no process is
\* running when get has ended.
C10_TwoSequentialProcesses ==
    /\ Len(sub) <= 2
    /\ Cardinality({i \in DOMAIN sub : sub[i].state = "running"}) <= 1
    /\ 1 \in DOMAIN sub => sub[1].argv[1] = client.hiera_binary
    /\ 2 \in DOMAIN sub =>
         /\ sub[2].argv[1] = "ruby"
         /\ ExitedWith(1, {0})
         /\ Typed
    /\ pc = "hiera" <=> (Len(sub) = 1 /\ sub[1].state = "running")
    /\ pc = "ruby" <=> (Len(sub) = 2 /\ sub[2].state = "running")
    /\ pc \in {"idle", "done"} => \A i \in DOMAIN sub : sub[i].state # "running"

C10_Witness ==
    /\ Len(sub) = 2
    /\ Cardinality(Started) = 2
    /\ pc = "done"
    /\ result.kind = "return"

====
